---- MODULE Spec2Model ----
(***************************************************************************)
(* Model of kalman_filter::base_t (src/src/kalman_filter/base.cpp): the    *)
(* observation buffer, the validated accessors of x and P, and the masked  *)
(* Kalman update with its covariance conditioning.                         *)
(*                                                                         *)
(* A double is modelled as an exact rational <<n, d>> in lowest terms with *)
(* d > 0, or one of the three IEEE-754 non-finite values: <<1, 0>> (+inf), *)
(* <<-1, 0>> (-inf) and <<0, 0>> (NaN).  Comparisons and arithmetic follow *)
(* IEEE-754 on the non-finite values (NaN compares false with everything,  *)
(* 0 * inf = NaN, x / 0 = +-inf, 0 / 0 = NaN); rounding and the sign of     *)
(* zero are not modelled.  Q, R and the temporary t_xx, which no method     *)
(* of base.cpp reads after construction, and the log stream are left out.  *)
(* Indices are 0-based as in the source; a vector is a function on         *)
(* 0..n-1 and a matrix a function of rows, M[row][col].                    *)
(***************************************************************************)
EXTENDS Integers, Sequences, FiniteSets, TLC

\* ------------------------------------------------------------- bounds
\* Dimensions handed to the constructor, and the length of a run.
n_x == 2
n_z == 2
MaxCalls == 4

\* ------------------------------------------------- double arithmetic
RECURSIVE GCD(_, _)
GCD(a, b) == IF b = 0 THEN a ELSE GCD(b, a % b)

IAbs(n) == IF n < 0 THEN -n ELSE n
Sign(n) == IF n < 0 THEN -1 ELSE IF n > 0 THEN 1 ELSE 0

\* The rational n/d (d # 0) in lowest terms with a positive denominator.
Rat(n, d) ==
    LET g == GCD(IAbs(n), IAbs(d))
        s == IF d < 0 THEN -1 ELSE 1
    IN  <<(s * n) \div g, (s * d) \div g>>

Zero == <<0, 1>>
One == <<1, 1>>
NaN == <<0, 0>>
PosInf == <<1, 0>>
NegInf == <<-1, 0>>

IsNaN(a) == a = NaN
IsInf(a) == a[2] = 0 /\ a[1] # 0
IsFinite(a) == a[2] # 0

FNeg(a) == <<-a[1], a[2]>>

FAdd(a, b) ==
    IF IsNaN(a) \/ IsNaN(b) THEN NaN
    ELSE IF IsInf(a) THEN (IF IsInf(b) /\ b # a THEN NaN ELSE a)
    ELSE IF IsInf(b) THEN b
    ELSE Rat(a[1] * b[2] + b[1] * a[2], a[2] * b[2])

FSub(a, b) == FAdd(a, FNeg(b))

FMul(a, b) ==
    IF IsNaN(a) \/ IsNaN(b) THEN NaN
    ELSE IF IsInf(a) \/ IsInf(b)
         THEN (IF a[1] = 0 \/ b[1] = 0 THEN NaN
               ELSE <<Sign(a[1]) * Sign(b[1]), 0>>)
    ELSE Rat(a[1] * b[1], a[2] * b[2])

FDiv(a, b) ==
    IF IsNaN(a) \/ IsNaN(b) THEN NaN
    ELSE IF IsInf(b) THEN (IF IsInf(a) THEN NaN ELSE Zero)
    ELSE IF b[1] = 0 THEN (IF a[1] = 0 THEN NaN ELSE <<Sign(a[1]), 0>>)
    ELSE IF IsInf(a) THEN <<Sign(a[1]) * Sign(b[1]), 0>>
    ELSE Rat(a[1] * b[2], a[2] * b[1])

\* std::abs
FAbs(a) == <<IAbs(a[1]), a[2]>>

\* operator< and operator<= on doubles: false whenever an operand is NaN.
FLt(a, b) ==
    IF IsNaN(a) \/ IsNaN(b) THEN FALSE
    ELSE IF IsInf(a) THEN a = NegInf /\ b # NegInf
    ELSE IF IsInf(b) THEN b = PosInf
    ELSE a[1] * b[2] < b[1] * a[2]

\* operator== on doubles.
FEq(a, b) == ~IsNaN(a) /\ ~IsNaN(b) /\ a = b

FLe(a, b) == FLt(a, b) \/ FEq(a, b)

\* The literal 1E-3 of the conditioning loop.
Threshold == <<1, 1000>>

\* --------------------------------------------------- dense matrices
Idx(n) == 0 .. (n - 1)

\* A vector / a matrix given entry by entry.  (f @@ << >> is f itself, held
\* as an explicit table of its values instead of an unevaluated expression.)
Vec(n, F(_)) == [i \in Idx(n) |-> F(i)] @@ << >>
Mat(r, c, F(_, _)) ==
    [i \in Idx(r) |-> ([j \in Idx(c) |-> F(i, j)] @@ << >>)] @@ << >>

\* setZero / setIdentity
ZeroVec(n) == Vec(n, LAMBDA i : Zero)
ZeroMat(r, c) == Mat(r, c, LAMBDA i, j : Zero)
IdentityMat(n) == Mat(n, n, LAMBDA i, j : IF i = j THEN One ELSE Zero)

\* Sum of f[0] .. f[n-1], an empty sum being 0.
RECURSIVE SumTo(_, _)
SumTo(f, n) == IF n = 0 THEN Zero ELSE FAdd(SumTo(f, n - 1), f[n - 1])

\* A (r x k) times B (k x c).
MatMul(A, B, r, k, c) ==
    Mat(r, c, LAMBDA i, j : SumTo([l \in Idx(k) |-> FMul(A[i][l], B[l][j])], k))

\* A (r x k) times the vector v (k).
MatVec(A, v, r, k) ==
    Vec(r, LAMBDA i : SumTo([l \in Idx(k) |-> FMul(A[i][l], v[l])], k))

\* The transpose of A (r x c).
Transpose(A, r, c) == Mat(c, r, LAMBDA j, i : A[i][j])

MatAdd(A, B, r, c) == Mat(r, c, LAMBDA i, j : FAdd(A[i][j], B[i][j]))
MatSub(A, B, r, c) == Mat(r, c, LAMBDA i, j : FSub(A[i][j], B[i][j]))
VecAdd(u, v, n) == Vec(n, LAMBDA i : FAdd(u[i], v[i]))

\* A (n x n) without row r and column c.
Minor(A, n, r, c) ==
    Mat(n - 1, n - 1, LAMBDA i, j :
        A[IF i < r THEN i ELSE i + 1][IF j < c THEN j ELSE j + 1])

\* Determinant by expansion along row 0; the empty determinant is 1.
RECURSIVE Det(_, _)
Det(A, n) ==
    IF n = 0 THEN One
    ELSE SumTo([j \in Idx(n) |->
                  FMul(IF j % 2 = 0 THEN A[0][j] ELSE FNeg(A[0][j]),
                       Det(Minor(A, n, 0, j), n - 1))], n)

\* Eigen's MatrixXd::inverse(): it never reports a singular matrix and never
\* throws; the division by the zero pivot yields non-finite entries instead
\* (here those of adj(A) / 0: +-inf where the cofactor is not 0, NaN where it
\* is).
Inverse(A, n) ==
    LET d == Det(A, n)
    IN  Mat(n, n, LAMBDA i, j :
            FDiv(IF (i + j) % 2 = 0 THEN Det(Minor(A, n, j, i), n - 1)
                 ELSE FNeg(Det(Minor(A, n, j, i), n - 1)), d))

\* ------------------------------------------ std::map<uint32_t, double>
\* m_observations is kept as the sequence of its (first, second) pairs in
\* iteration order, which for std::map is ascending key order.
Entry(k, v) == [first |-> k, second |-> v]

MapKeys(m) == {m[p].first : p \in 1 .. Len(m)}

\* m.count(k)
MapCount(m, k) == Cardinality({p \in 1 .. Len(m) : m[p].first = k})

\* m.find(k)->second, for a key that is present.
MapAt(m, k) == m[CHOOSE p \in 1 .. Len(m) : m[p].first = k].second

\* MapAssign with the bug of a container that appends without looking for
\* the key.
MapAssign_Append(m, k, v) == m \o <<Entry(k, v)>>

\* m[k] = v: replaces the value of an existing key, otherwise inserts the
\* pair at its place in key order.
MapAssign(m, k, v) ==
    IF \E p \in 1 .. Len(m) : m[p].first = k
    THEN [p \in 1 .. Len(m) |-> IF m[p].first = k THEN Entry(k, v) ELSE m[p]]
    ELSE SelectSeq(m, LAMBDA e : e.first < k) \o <<Entry(k, v)>>
         \o SelectSeq(m, LAMBDA e : e.first > k)

\* MapClear with the bug of a forgotten clear().
MapClear_Forgotten(m) == m

\* m.clear()
MapClear(m) == << >>

\* --------------------------------------------------------------- state
VARIABLES
    x,               \* state vector (n_x)
    P,               \* covariance (n_x x n_x)
    S,               \* innovation covariance (n_z x n_z), written by the derived filter
    C,               \* observation matrix (n_x x n_z), written by the derived filter
    z,               \* predicted observation (n_z), written by the derived filter
    m_observations,  \* the observation buffer
    call,            \* the last call made: its name and arguments
    outcome,         \* how that call ended: "ok" or "runtime_error"
    ncalls           \* calls made since construction

vars == <<x, P, S, C, z, m_observations, call, outcome, ncalls>>

filter == <<x, P, S, C, z, m_observations>>

\* The record of a call: a, b, c are its integer arguments (-1 when it has
\* fewer) and v its double argument (0 when it has none).  For
\* masked_kalman_update, which has no argument, a is the n_o it computed.
Call(op, a, b, c, v) == [op |-> op, a |-> a, b |-> b, c |-> c, v |-> v]

\* A call ends: by returning ("ok") or by throwing std::runtime_error.
Ends(op, a, b, c, v, how) ==
    /\ ncalls < MaxCalls
    /\ ncalls' = ncalls + 1
    /\ call' = Call(op, a, b, c, v)
    /\ outcome' = how

\* base_t::base_t(n_variables, n_observers)
Init ==
    /\ x = ZeroVec(n_x)
    /\ P = IdentityMat(n_x)
    /\ S = ZeroMat(n_z, n_z)
    /\ C = ZeroMat(n_x, n_z)
    /\ z = ZeroVec(n_z)
    /\ m_observations = << >>
    /\ call = Call("base_t", n_x, n_z, -1, Zero)
    /\ outcome = "ok"
    /\ ncalls = 0

\* ------------------------------------------------------ filter methods
has_observations == Len(m_observations) # 0

has_observation(observer_index) == MapCount(m_observations, observer_index) # 0

\* Values a caller reports as observations.
ObsVals == {One, <<3, 1>>}

\* The buffer new_observation leaves, and how the call ends.
NewObservation(m, observer_index, observation) ==
    IF ~(observer_index < n_z)
    THEN [m |-> m, how |-> "runtime_error"]
    ELSE [m |-> MapAssign(m, observer_index, observation), how |-> "ok"]

new_observation(observer_index, observation) ==
    LET r == NewObservation(m_observations, observer_index, observation)
    IN  /\ Ends("new_observation", observer_index, -1, -1, observation, r.how)
        /\ m_observations' = r.m
        /\ UNCHANGED <<x, P, S, C, z>>

\* MaskS with the bug of swapped indices: S_m(m_i, m_j) = S(j->first, i->first).
MaskS_Swapped(Sf, m) ==
    Mat(Len(m), Len(m), LAMBDA m_i, m_j : Sf[m[m_j + 1].first][m[m_i + 1].first])

\* The masked S: S_m(m_i, m_j) = S(i->first, j->first), i and j running over
\* the buffer in iteration order.
MaskS(Sf, m) ==
    Mat(Len(m), Len(m), LAMBDA m_i, m_j : Sf[m[m_i + 1].first][m[m_j + 1].first])

\* The masked C: C_m.col(m_j) = C.col(j->first).
MaskC(Cf, m) ==
    Mat(n_x, Len(m), LAMBDA r, m_j : Cf[r][m[m_j + 1].first])

\* The masked za - z.
MaskZd(zf, m) ==
    Vec(Len(m), LAMBDA m_i : FSub(m[m_i + 1].second, zf[m[m_i + 1].first]))

\* K_m = C_m * Si_m
KalmanGain(C_m, Si_m, n_o) == MatMul(C_m, Si_m, n_x, n_o, n_o)

\* x += K_m * zd_m
UpdateState(xs, K_m, zd_m, n_o) == VecAdd(xs, MatVec(K_m, zd_m, n_x, n_o), n_x)

\* P -= K_m * S_m * K_m.transpose()
UpdateCovariance(Ps, K_m, S_m, n_o) ==
    LET KS == MatMul(K_m, S_m, n_x, n_o, n_o)
    IN  MatSub(Ps, MatMul(KS, Transpose(K_m, n_x, n_o), n_x, n_o, n_x), n_x, n_x)

\* t_xx = P.transpose(); P += t_xx; P /= 2.0
ForceSymmetric(Ps) ==
    LET t_xx == Transpose(Ps, n_x, n_x)
        sum == MatAdd(Ps, t_xx, n_x, n_x)
    IN  Mat(n_x, n_x, LAMBDA i, j : FDiv(sum[i][j], <<2, 1>>))

\* The test that zeroes an off-diagonal entry: P(i,j) < 1E-3.
IsSmall(p) == FLt(p, Threshold)

\* row_sum of row i: the entries that are not zeroed add their magnitude.
RowSum(Ps, i) ==
    SumTo([j \in Idx(n_x) |->
              IF i # j /\ ~IsSmall(Ps[i][j]) THEN FAbs(Ps[i][j]) ELSE Zero], n_x)

\* ForceDiagonal with the bug of a strict comparison: if(P(i,i) < row_sum).
ForceDiagonal_Strict(p_ii, row_sum) ==
    IF FLt(p_ii, row_sum) THEN FAdd(row_sum, Threshold) ELSE p_ii

\* The diagonal entry of row i after "if(P(i,i) <= row_sum)".
ForceDiagonal(p_ii, row_sum) ==
    IF FLe(p_ii, row_sum) THEN FAdd(row_sum, Threshold) ELSE p_ii

\* The loop over the rows: row i reads and writes row i only.
ForceFullRank(Ps) ==
    Mat(n_x, n_x, LAMBDA i, j :
        IF i # j
        THEN (IF IsSmall(Ps[i][j]) THEN Zero ELSE Ps[i][j])
        ELSE ForceDiagonal(Ps[i][i], RowSum(Ps, i)))

\* What masked_kalman_update leaves: it has no early return and no throw.
\* n_o is the buffer's size on entry.
MaskedKalmanUpdate(xs, Ps, Sf, Cf, zf, m) ==
    LET n_o == Len(m)
        S_m == MaskS(Sf, m)
        C_m == MaskC(Cf, m)
        Si_m == Inverse(S_m, n_o)
        K_m == KalmanGain(C_m, Si_m, n_o)
        zd_m == MaskZd(zf, m)
    IN  [x |-> UpdateState(xs, K_m, zd_m, n_o),
         P |-> ForceFullRank(ForceSymmetric(UpdateCovariance(Ps, K_m, S_m, n_o))),
         m |-> MapClear(m),
         n_o |-> n_o,
         how |-> "ok"]

masked_kalman_update ==
    LET r == MaskedKalmanUpdate(x, P, S, C, z, m_observations)
    IN  /\ Ends("masked_kalman_update", r.n_o, -1, -1, Zero, r.how)
        /\ x' = r.x
        /\ P' = r.P
        /\ m_observations' = r.m
        /\ UNCHANGED <<S, C, z>>

\* --------------------------------------------------------------- access
\* Values a caller writes into x and into P (a negative covariance entry).
StateVals == {<<2, 1>>}
CovVals == {<<-1, 1>>}

\* state(index): a const method, so only its way of ending is modelled.
State(index) == IF index >= n_x THEN "runtime_error" ELSE "ok"

state(index) ==
    /\ Ends("state", index, -1, -1, Zero, State(index))
    /\ UNCHANGED filter

SetState(xs, index, value) ==
    IF index >= n_x
    THEN [x |-> xs, how |-> "runtime_error"]
    ELSE [x |-> [xs EXCEPT ![index] = value], how |-> "ok"]

set_state(index, value) ==
    LET r == SetState(x, index, value)
    IN  /\ Ends("set_state", index, -1, -1, value, r.how)
        /\ x' = r.x
        /\ UNCHANGED <<P, S, C, z, m_observations>>

\* covariance(index_a, index_b): a const method.
Covariance(index_a, index_b) ==
    IF index_a >= n_x \/ index_b >= n_x THEN "runtime_error" ELSE "ok"

covariance(index_a, index_b) ==
    /\ Ends("covariance", index_a, index_b, -1, Zero, Covariance(index_a, index_b))
    /\ UNCHANGED filter

SetCovariance(Ps, index_a, index_b, value) ==
    IF index_a >= n_x \/ index_b >= n_x
    THEN [P |-> Ps, how |-> "runtime_error"]
    ELSE [P |-> [Ps EXCEPT ![index_a][index_b] = value], how |-> "ok"]

set_covariance(index_a, index_b, value) ==
    LET r == SetCovariance(P, index_a, index_b, value)
    IN  /\ Ends("set_covariance", index_a, index_b, -1, value, r.how)
        /\ P' = r.P
        /\ UNCHANGED <<x, S, C, z, m_observations>>

\* An Eigen::VectorXd / Eigen::MatrixXd argument: its sizes and its entries.
Vector(n, f) == [size |-> n, data |-> f]
Matrix(r, c, f) == [rows |-> r, cols |-> c, data |-> f]

\* Arguments of initialize_state: vectors of ones of the right and of a wrong
\* length; two asymmetric matrices P0 (1 on the diagonal and, right above it,
\* 1.999 in SeedP and 0.0005 in SmallP) and two matrices of ones with a wrong
\* row or column count.
X0s == {Vector(n, Vec(n, LAMBDA i : One)) : n \in {n_x, n_x + 1}}

SeedP ==
    Mat(n_x, n_x, LAMBDA i, j :
        IF i = j THEN One ELSE IF j = i + 1 THEN <<1999, 1000>> ELSE Zero)

SmallP ==
    Mat(n_x, n_x, LAMBDA i, j :
        IF i = j THEN One ELSE IF j = i + 1 THEN <<1, 2000>> ELSE Zero)

P0s ==
    {Matrix(n_x, n_x, SeedP),
     Matrix(n_x, n_x, SmallP),
     Matrix(n_x + 1, n_x, Mat(n_x + 1, n_x, LAMBDA i, j : One)),
     Matrix(n_x, n_x + 1, Mat(n_x, n_x + 1, LAMBDA i, j : One))}

\* InitializeState with the bug of assigning x before P0 is checked.
InitializeState_AssignsFirst(xs, Ps, x0, P0) ==
    IF x0.size # n_x
    THEN [x |-> xs, P |-> Ps, how |-> "runtime_error"]
    ELSE IF P0.rows # n_x \/ P0.cols # n_x
    THEN [x |-> x0.data, P |-> Ps, how |-> "runtime_error"]
    ELSE [x |-> x0.data, P |-> P0.data, how |-> "ok"]

InitializeState(xs, Ps, x0, P0) ==
    IF x0.size # n_x
    THEN [x |-> xs, P |-> Ps, how |-> "runtime_error"]
    ELSE IF P0.rows # n_x \/ P0.cols # n_x
    THEN [x |-> xs, P |-> Ps, how |-> "runtime_error"]
    ELSE [x |-> x0.data, P |-> P0.data, how |-> "ok"]

initialize_state(x0, P0) ==
    LET r == InitializeState(x, P, x0, P0)
    IN  /\ Ends("initialize_state", x0.size, P0.rows, P0.cols, Zero, r.how)
        /\ x' = r.x
        /\ P' = r.P
        /\ UNCHANGED <<S, C, z, m_observations>>

\* -------------------------------------------------------------- logging
\* The log stream is a sink outside the filter: the logging methods read
\* x, z and m_observations and write only to m_log_file.
start_log ==
    /\ Ends("start_log", -1, -1, -1, Zero, "ok")
    /\ UNCHANGED filter

stop_log ==
    /\ Ends("stop_log", -1, -1, -1, Zero, "ok")
    /\ UNCHANGED filter

log_predicted_state ==
    /\ Ends("log_predicted_state", -1, -1, -1, Zero, "ok")
    /\ UNCHANGED filter

\* log_observations with the bug of reading m_observations[i], which inserts
\* a zero for every observer that has not reported, instead of find(i).
RECURSIVE Touched(_, _)
Touched(m, n) ==
    IF n = 0 THEN m
    ELSE LET t == Touched(m, n - 1)
         IN  IF MapCount(t, n - 1) # 0 THEN t ELSE MapAssign(t, n - 1, Zero)

log_observations_Inserting(empty) ==
    /\ Ends("log_observations", IF empty THEN 1 ELSE 0, -1, -1, Zero, "ok")
    /\ m_observations' = IF empty THEN m_observations ELSE Touched(m_observations, n_z)
    /\ UNCHANGED <<x, P, S, C, z>>

log_observations(empty) ==
    /\ Ends("log_observations", IF empty THEN 1 ELSE 0, -1, -1, Zero, "ok")
    /\ UNCHANGED filter

log_estimated_state ==
    /\ Ends("log_estimated_state", -1, -1, -1, Zero, "ok")
    /\ UNCHANGED filter

\* ------------------------------------------------------ derived filter
\* The observation models a derived filter writes into S, C and z before a
\* correction:
\*   1: S = I, column c of C the c-th unit vector, z = 0;
\*   2: S upper triangular (2 on the diagonal, 1 above it), C upper
\*      triangular ones, z[i] = i + 1;
\*   3: S and C all ones, z = 0 (S_m is singular once two observers report).
ModelS(k) ==
    Mat(n_z, n_z, LAMBDA i, j :
        IF k = 1 THEN (IF i = j THEN One ELSE Zero)
        ELSE IF k = 2 THEN (IF i = j THEN <<2, 1>> ELSE IF i < j THEN One ELSE Zero)
        ELSE One)

ModelC(k) ==
    Mat(n_x, n_z, LAMBDA r, c :
        IF k = 1 THEN (IF r = c THEN One ELSE Zero)
        ELSE IF k = 2 THEN (IF r <= c THEN One ELSE Zero)
        ELSE One)

ModelZ(k) == Vec(n_z, LAMBDA i : IF k = 2 THEN <<i + 1, 1>> ELSE Zero)

observation_model(k) ==
    /\ Ends("observation_model", k, -1, -1, Zero, "ok")
    /\ S' = ModelS(k)
    /\ C' = ModelC(k)
    /\ z' = ModelZ(k)
    /\ UNCHANGED <<x, P, m_observations>>

\* ------------------------------------------------------- specification
\* Index arguments tried on a dimension of size n: the first index, the last
\* one, and the first one out of range.
Indices(n) == {0, n - 1, n}

\* Index arguments tried on the const accessors, which only check the index:
\* one in range and one out of range.
QueryIndices(n) == {0, n}

Next ==
    \/ \E i \in Indices(n_z), v \in ObsVals : new_observation(i, v)
    \/ masked_kalman_update
    \/ \E i \in QueryIndices(n_x) : state(i)
    \/ \E i \in Indices(n_x), v \in StateVals : set_state(i, v)
    \/ \E a \in QueryIndices(n_x), b \in QueryIndices(n_x) : covariance(a, b)
    \/ \E a \in Indices(n_x), b \in Indices(n_x), v \in CovVals :
          set_covariance(a, b, v)
    \/ \E x0 \in X0s, P0 \in P0s : initialize_state(x0, P0)
    \/ start_log
    \/ stop_log
    \/ log_predicted_state
    \/ \E empty \in BOOLEAN : log_observations(empty)
    \/ log_estimated_state
    \/ \E k \in 1 .. 3 : observation_model(k)

Spec == Init /\ [][Next]_vars

\* =============================================================== claims
IsUpdate(c) == c.op = "masked_kalman_update"

\* C1: masked_kalman_update() called with an empty buffer leaves every entry
\* of x and of P exactly as it was, raises no error and leaves
\* has_observations() false, whatever x and P were seeded with.
C1_EmptyUpdateIsNoOp ==
    [][(IsUpdate(call') /\ ~has_observations)
         => (x' = x /\ P' = P /\ outcome' = "ok" /\ ~has_observations')]_vars

\* The reduced innovation covariance of the pending observations is singular.
SingularSm == Det(MaskS(S, m_observations), Len(m_observations)) = Zero

\* C2: masked_kalman_update() called with a non-empty buffer whose reduced
\* innovation covariance S_m is singular ends in an error and leaves x and P
\* at their values before the call.
C2_SingularRaisesAndKeepsState ==
    [][(IsUpdate(call') /\ has_observations /\ SingularSm)
         => (outcome' = "runtime_error" /\ x' = x /\ P' = P)]_vars

\* C5: after every masked_kalman_update() that returned, the observation
\* buffer is empty: has_observations() is false and has_observation(i) is
\* false for every observer index i < n_z.
C5_BufferEmptyAfterUpdate ==
    (IsUpdate(call) /\ outcome = "ok")
        => (~has_observations /\ \A i \in Idx(n_z) : ~has_observation(i))

\* C5's case: an update that consumed two pending observations has returned.
C5_Witness ==
    IsUpdate(call) /\ outcome = "ok" /\ call.a = 2 /\ ~has_observations

\* The arguments of a call are ones the method rejects.
BadArgument(c) ==
    \/ c.op = "new_observation" /\ c.a >= n_z
    \/ c.op \in {"state", "set_state"} /\ c.a >= n_x
    \/ c.op \in {"covariance", "set_covariance"} /\ (c.a >= n_x \/ c.b >= n_x)
    \/ c.op = "initialize_state" /\ (c.a # n_x \/ c.b # n_x \/ c.c # n_x)

\* C6: every call rejected for a bad argument (an observer index >= n_z, a
\* state or covariance index >= n_x, an x0 or P0 of the wrong size) raises an
\* error and leaves x, P and the observation buffer exactly as they were.
C6_RejectedCallsChangeNothing ==
    [][BadArgument(call')
         => (outcome' = "runtime_error" /\ x' = x /\ P' = P
             /\ m_observations' = m_observations)]_vars

\* C6's case: initialize_state was rejected for its P0 although its x0 was
\* valid, with x and an observation in place that the call could have lost.
C6_Witness ==
    /\ call.op = "initialize_state" /\ call.a = n_x /\ call.b # n_x
    /\ outcome = "runtime_error"
    /\ has_observations
    /\ x # ZeroVec(n_x)

\* ---- C3: the correction, stated from the reporting indices -------------
\* The reporting indices i_1 < ... < i_no, as the function a |-> i_(a+1).
RECURSIVE Ascending(_)
Ascending(K) ==
    IF K = {} THEN << >>
    ELSE LET k == CHOOSE k \in K : \A l \in K : k <= l
         IN  <<k>> \o Ascending(K \ {k})

Reporting == Ascending({i \in Idx(n_z) : has_observation(i)})

\* A with column c replaced by the vector b.
WithColumn(A, n, c, b) == Mat(n, n, LAMBDA i, j : IF j = c THEN b[i] ELSE A[i][j])

\* The solution y of A y = b for an invertible A, by Cramer's rule.
Solve(A, n, b) == Vec(n, LAMBDA k : FDiv(Det(WithColumn(A, n, k, b), n), Det(A, n)))

\* inverse(A): its column c solves A y = e_c.
InverseOf(A, n) ==
    Mat(n, n, LAMBDA r, c :
        Solve(A, n, Vec(n, LAMBDA i : IF i = c THEN One ELSE Zero))[r])

\* S_m, C_m, d_m and K_m as the claim defines them.
ClaimSm == Mat(Len(Reporting), Len(Reporting),
               LAMBDA a, b : S[Reporting[a + 1]][Reporting[b + 1]])
ClaimCm == Mat(n_x, Len(Reporting), LAMBDA r, a : C[r][Reporting[a + 1]])
ClaimDm == Vec(Len(Reporting),
               LAMBDA a : FSub(MapAt(m_observations, Reporting[a + 1]),
                               z[Reporting[a + 1]]))
ClaimKm == MatMul(ClaimCm, InverseOf(ClaimSm, Len(Reporting)),
                  n_x, Len(Reporting), Len(Reporting))

\* x + K_m d_m and P - K_m S_m K_m^T.
ClaimX == VecAdd(x, MatVec(ClaimKm, ClaimDm, n_x, Len(Reporting)), n_x)
ClaimP ==
    LET n_o == Len(Reporting)
        SKt == MatMul(ClaimSm, Transpose(ClaimKm, n_x, n_o), n_o, n_o, n_x)
    IN  MatSub(P, MatMul(ClaimKm, SKt, n_x, n_o, n_x), n_x, n_x)

\* The scenario of the claim, observer 0 being the one that reports.
Scenario ==
    /\ n_x = 2
    /\ x = ZeroVec(2) /\ P = IdentityMat(2)
    /\ m_observations = <<Entry(0, One)>>
    /\ S[0][0] = One /\ z[0] = Zero
    /\ C[0][0] = One /\ C[1][0] = Zero

ScenarioResult ==
    /\ x = (0 :> One @@ 1 :> Zero)
    /\ P = (0 :> (0 :> Threshold @@ 1 :> Zero) @@ 1 :> (0 :> Zero @@ 1 :> One))

\* C3: with a non-empty buffer and an invertible S_m, the update computes
\* x' = x + K_m d_m and, before conditioning, P' = P - K_m S_m K_m^T, with
\* S_m, C_m, d_m taken at the reporting indices in ascending order and
\* K_m = C_m inverse(S_m); in the scenario (x = 0, P = I, S = [[1]],
\* C = [[1],[0]], z = [0], observation 1.0) it gives x = [1, 0] and
\* P = [[0.001, 0], [0, 1]].
C3_MaskedCorrection ==
    [][(IsUpdate(call') /\ has_observations /\ ~SingularSm)
         => /\ x' = ClaimX
            /\ P' = ForceFullRank(ForceSymmetric(ClaimP))
            /\ (Scenario => ScenarioResult')]_vars

\* C3's case: the scenario's update has run (from the identity covariance,
\* observer 0 alone reporting 1.0 under the first observation model).
C3_Witness ==
    /\ IsUpdate(call) /\ call.a = 1
    /\ S = ModelS(1) /\ C = ModelC(1)
    /\ ScenarioResult

\* ---- C4: diagonal dominance after a correction --------------------------
FiniteVec(v, n) == \A i \in Idx(n) : IsFinite(v[i])
FiniteMat(M, n) == \A i \in Idx(n), j \in Idx(n) : IsFinite(M[i][j])

\* The sum of the magnitudes of the off-diagonal entries of row i.
OffDiagonalSum(M, i) ==
    SumTo([j \in Idx(n_x) |-> IF j = i THEN Zero ELSE FAbs(M[i][j])], n_x)

\* A correction over pending observations and an invertible S_m has run and
\* has left a finite covariance.
Corrected == IsUpdate(call') /\ has_observations /\ ~SingularSm /\ FiniteMat(P', n_x)

\* C4 as claimed: after a successful correction with n_o > 0, every diagonal
\* entry of P is at least 1e-3 above the sum of the magnitudes of the
\* off-diagonal entries left in its row.
C4_DominantByThreshold ==
    [][Corrected
         => \A i \in Idx(n_x) :
               FLe(FAdd(OffDiagonalSum(P', i), Threshold), P'[i][i])]_vars

\* C4 as amended: after a successful correction with n_o > 0, every diagonal
\* entry of P strictly exceeds the sum of the magnitudes of the off-diagonal
\* entries left in its row (by any margin, not necessarily 1e-3).
C4_StrictlyDominant ==
    [][Corrected
         => \A i \in Idx(n_x) : FLt(OffDiagonalSum(P', i), P'[i][i])]_vars

\* C4's case: a correction with n_o > 0 has left x and P finite and a row
\* whose diagonal exceeds its off-diagonal sum by less than 1e-3.
C4_Witness ==
    /\ IsUpdate(call) /\ call.a > 0
    /\ FiniteVec(x, n_x) /\ FiniteMat(P, n_x)
    /\ \E i \in Idx(n_x) :
          /\ FLt(OffDiagonalSum(P, i), P[i][i])
          /\ FLt(P[i][i], FAdd(OffDiagonalSum(P, i), Threshold))

\* ---- C7: insert-or-replace -----------------------------------------------
\* At most one entry per observer index, every key an observer index.
BufferWellFormed ==
    /\ \A p \in 1 .. Len(m_observations) : m_observations[p].first \in Idx(n_z)
    /\ \A k \in Idx(n_z) : MapCount(m_observations, k) <= 1
    /\ Len(m_observations) <= n_z

\* A new_observation(i, v) with a valid index leaves exactly one entry for i,
\* carrying v, and every other index as it was.
InsertsOrReplaces ==
    (call'.op = "new_observation" /\ call'.a < n_z)
        => /\ outcome' = "ok"
           /\ MapCount(m_observations', call'.a) = 1
           /\ MapAt(m_observations', call'.a) = call'.v
           /\ \A k \in Idx(n_z) \ {call'.a} :
                 /\ MapCount(m_observations', k) = MapCount(m_observations, k)
                 /\ MapCount(m_observations, k) # 0
                       => MapAt(m_observations', k) = MapAt(m_observations, k)

\* C7: new_observation with a valid index inserts or replaces: the buffer
\* holds one entry per index supplied, with the value of the latest call for
\* it, the other entries are unaffected, and its size never exceeds n_z.
C7_InsertOrReplace == [](BufferWellFormed) /\ [][InsertsOrReplaces]_vars

\* C7's case: after at least three calls, the last one new_observation(0, 3.0),
\* the buffer holds one entry for each of two observers, observer 0's
\* carrying 3.0.
C7_Witness ==
    /\ call = Call("new_observation", 0, -1, -1, <<3, 1>>)
    /\ Len(m_observations) = 2
    /\ MapAt(m_observations, 0) = <<3, 1>>
    /\ ncalls >= 3

\* ---- C8: symmetry ----------------------------------------------------------
\* C8: after every masked_kalman_update(), P(i,j) == P(j,i) for all i, j.
C8_SymmetricAfterUpdate ==
    IsUpdate(call) => \A i \in Idx(n_x), j \in Idx(n_x) : FEq(P[i][j], P[j][i])

\* ---- C9: who changes the buffer -------------------------------------------
BufferFrame ==
    /\ m_observations' # m_observations
          => call'.op \in {"new_observation", "masked_kalman_update"}
    /\ call'.op = "new_observation"
          => \A k \in Idx(n_z) \ {call'.a} :
                /\ has_observation(k)' = has_observation(k)
                /\ has_observation(k)
                      => MapAt(m_observations', k) = MapAt(m_observations, k)
    /\ IsUpdate(call') => m_observations' = << >>
    /\ \A i \in Idx(n_z) :
          (has_observation(i) /\ ~IsUpdate(call')) => has_observation(i)'

\* C9: the buffer is changed only by new_observation, which touches the one
\* key it is given, and by masked_kalman_update, which empties it; a pending
\* observation stays pending until the next update, and initialize_state,
\* set_state, set_covariance, the accessors and the logging calls leave the
\* buffer as it is.
C9_OnlyObservationAndUpdateChangeBuffer == [][BufferFrame]_vars

\* C9's case: initialize_state replaced x and P while an observation was
\* pending, and the observation is still there.
C9_Witness ==
    /\ call.op = "initialize_state" /\ outcome = "ok"
    /\ has_observations

\* ---- C10: thresholding by magnitude ----------------------------------------
\* The symmetrized covariance the conditioning loop starts from.
Symmetrized ==
    LET m == m_observations
        n_o == Len(m)
        S_m == MaskS(S, m)
        K_m == KalmanGain(MaskC(C, m), Inverse(S_m, n_o), n_o)
    IN  ForceSymmetric(UpdateCovariance(P, K_m, S_m, n_o))

\* The row sum of the claim: every off-diagonal entry of magnitude >= 1e-3
\* adds its magnitude.
MagnitudeRowSum(M, i) ==
    SumTo([j \in Idx(n_x) |->
              IF j = i \/ FLt(FAbs(M[i][j]), Threshold) THEN Zero
              ELSE FAbs(M[i][j])], n_x)

\* C10: the conditioning zeroes an off-diagonal entry of the symmetrized P
\* exactly when its magnitude is below 1e-3; every other off-diagonal entry,
\* positive or negative, is kept and adds its magnitude to the row sum that
\* decides the diagonal repair.
C10_ThresholdByMagnitude ==
    [][IsUpdate(call')
         => \A i \in Idx(n_x), j \in Idx(n_x) :
               IF i # j
               THEN P'[i][j] = (IF FLt(FAbs(Symmetrized[i][j]), Threshold)
                                THEN Zero ELSE Symmetrized[i][j])
               ELSE P'[i][i] = ForceDiagonal(Symmetrized[i][i],
                                             MagnitudeRowSum(Symmetrized, i))]_vars

====
